---- MODULE Spec2Model ----
(***************************************************************************)
(* securitycontrol: the control registry (pkg/control), the test registry  *)
(* (pkg/validate) and the command-line front end (main), as state          *)
(* machines.                                                                *)
(*                                                                          *)
(* Time.  A time.Time is an integer count of clock ticks since the model's  *)
(* epoch, 2020-01-01T00:00:00 UTC; the zero time.Time is ZeroTime.          *)
(*                                                                          *)
(* float64.  Every float64 the program computes is a multiple of 2^-56, so  *)
(* a value v is held exactly as the record [k, e] with                      *)
(*     v = (k * 2^56 + e) / (100 * 2^56),                                   *)
(* k the number of hundredths and e the (small) distance to k/100 in units  *)
(* of 1/(100 * 2^56).  Arithmetic is exact on [k, e] and then rounded to    *)
(* the nearest float64, ties to even, as IEEE 754 does.                     *)
(***************************************************************************)
EXTENDS Integers, Sequences, FiniteSets, TLC

VARIABLES
    controls,       \* control.ControlValidator.controls
    results,        \* control.ControlValidator.results
    tests,          \* validate.ControlValidator.controls
    tresults,       \* validate.ControlValidator.results
    now,            \* the last reading of the wall clock
    ret,            \* the last call and what it returned
    pc,             \* where the command-line program is
    validateCalls   \* history: the number of Validate() calls so far

vars == <<controls, results, tests, tresults, now, ret, pc, validateCalls>>

----------------------------------------------------------------------------
(* float64 *)

Flt(k, e) == [k |-> k, e |-> e]

FNeg(x) == Flt(-x.k, -x.e)

\* x < y, x <= y on exact values (|e| is far below 2^55)
FLt(x, y) == x.k < y.k \/ (x.k = y.k /\ x.e < y.e)
FLe(x, y) == x.k < y.k \/ (x.k = y.k /\ x.e <= y.e)
FGe(x, y) == FLe(y, x)
FGt(x, y) == FLt(y, x)

RECURSIVE Pow2Mod(_, _)
\* 2^n mod m
Pow2Mod(n, m) == IF n = 0 THEN 1 % m ELSE (2 * Pow2Mod(n - 1, m)) % m

\* 2^56 mod m for the spacings m of the binades from [1/16,1/8) to [128,256)
Pow2Mod56 == [m \in {100 * 2^j : j \in 0..13} |-> Pow2Mod(56, m)]

\* 1.0
One == Flt(100, 0)

RECURSIVE SpacingUp(_, _)
\* the float64 spacing (in units of 1/(100*2^56)) of the binade of x >= 1:
\* s is the spacing 2^-52 * p of [p, 2p), that is 1600 * p / 100 units
SpacingUp(x, s) ==
    IF FLt(x, Flt(100 * (s \div 800), 0)) THEN s ELSE SpacingUp(x, 2 * s)

\* the spacing of the binade that holds x >= 0: 2^-52 (1600 units) in [1,2),
\* 2^-53 in [1/2,1), 2^-54 in [1/4,1/2), 2^-55 in [1/8,1/4), 2^-56 below
Spacing(x) ==
    IF FGe(x, One) THEN SpacingUp(x, 1600)
    ELSE IF FGe(Flt(2 * x.k, 2 * x.e), One) THEN 800
    ELSE IF FGe(Flt(4 * x.k, 4 * x.e), One) THEN 400
    ELSE IF FGe(Flt(8 * x.k, 8 * x.e), One) THEN 200
    ELSE 100

\* (k * 2^56 + e) mod m, for k >= 0
ModUnits(x, m) == (Pow2Mod56[m] * x.k + (x.e % m)) % m

\* round x >= 0 to the nearest float64, ties to even; below 1/16 every
\* multiple of 2^-56 is a float64
RoundPos(x) ==
    LET s == Spacing(x)
        r == ModUnits(x, s)
    IN  IF 16 * x.k < 100 \/ r = 0 THEN x
        ELSE IF 2 * r < s THEN Flt(x.k, x.e - r)
        ELSE IF 2 * r > s THEN Flt(x.k, x.e + (s - r))
        ELSE IF ModUnits(x, 2 * s) = r THEN Flt(x.k, x.e - r)
        ELSE Flt(x.k, x.e + (s - r))

Round64(x) == IF FLt(x, Flt(0, 0)) THEN FNeg(RoundPos(FNeg(x))) ELSE RoundPos(x)

\* the float64 of the decimal literal k/100: 0.0 and 0.07, 0.08, ..., 1.0 (a
\* literal between 0 and 1/16 is no multiple of 2^-56; the program has none)
Literals == [k \in {0} \cup 7..100 |-> Round64(Flt(k, 0))]
Lit(k) == Literals[k]

FAdd(x, y) == Round64(Flt(x.k + y.k, x.e + y.e))
FSub(x, y) == Round64(Flt(x.k - y.k, x.e - y.e))
\* float64(n) * y for an integer n
FMulInt(n, y) == Round64(Flt(n * y.k, n * y.e))

----------------------------------------------------------------------------
(* time.Time: ticks since 2020-01-01T00:00:00 UTC, in the UTC location *)

\* clock ticks in a second (10^9 for the nanosecond clock of time.Now)
TicksPerSecond == 2

TicksPerDay == 24 * 60 * 60 * TicksPerSecond

\* the zero time.Time (January 1, year 1): before every other time
ZeroTime == -1

IsZero(t) == t = ZeroTime

\* t.Before(u)
Before(t, u) == t < u

IsLeap(y) == y % 4 = 0 /\ (y % 100 # 0 \/ y % 400 = 0)

\* leap years from year 1 up to and including year y
LeapsThrough(y) == (y \div 4) - (y \div 100) + (y \div 400)

\* days from the epoch to January 1 of year y
DaysBeforeYear(y) ==
    365 * (y - 2020) + (LeapsThrough(y - 1) - LeapsThrough(2019))

\* days of a non-leap year before each month (and before the next year)
daysBefore == <<0, 31, 59, 90, 120, 151, 181, 212, 243, 273, 304, 334, 365>>

\* days from January 1 of year y to the first of month m
DaysBeforeMonth(y, m) ==
    daysBefore[m] + (IF IsLeap(y) /\ m >= 3 THEN 1 ELSE 0)

\* time.Date(y, m, d, 0, 0, 0, 0, UTC) in days: the month is normalised into
\* the year first (m may be <= 0 or > 12), then the day is added as it is, so
\* that February 31 is March 3 (or 2)
Date(y, m, d) ==
    LET m0 == m - 1
        yn == y + (IF m0 >= 0 THEN m0 \div 12 ELSE -((11 - m0) \div 12))
        mn == (m0 % 12) + 1
    IN  DaysBeforeYear(yn) + DaysBeforeMonth(yn, mn) + (d - 1)

RECURSIVE YearOf(_, _)
\* the year that holds day n, searching from year y
YearOf(n, y) ==
    IF n < DaysBeforeYear(y) THEN YearOf(n, y - 1)
    ELSE IF n >= DaysBeforeYear(y + 1) THEN YearOf(n, y + 1)
    ELSE y

RECURSIVE MonthOf(_, _, _)
\* the month of year y that holds the day with ordinal yd (0-based), from m
MonthOf(yd, y, m) ==
    IF yd < DaysBeforeMonth(y, m + 1) THEN m
    ELSE MonthOf(yd, y, m + 1)

\* t.Date(): year, month, day of the day number n
Civil(n) ==
    LET y == YearOf(n, 2020)
        yd == n - DaysBeforeYear(y)
        m == MonthOf(yd, y, 1)
    IN  [year |-> y, month |-> m, day |-> yd - DaysBeforeMonth(y, m) + 1]

\* t.AddDate(years, months, days): the date fields are shifted and normalised
\* by Date, the clock within the day is kept
AddDate(t, years, months, days) ==
    LET n == t \div TicksPerDay
        c == Civil(n)
    IN  Date(c.year + years, c.month + months, c.day + days) * TicksPerDay
          + (t % TicksPerDay)

\* a format that keeps every tick of the clock
FormatTicks(t) == t

\* t.Format("20060102150405"): the time cut to the second
FormatSeconds(t) == t \div TicksPerSecond

----------------------------------------------------------------------------
(* bounds and inputs *)

\* most controls held by a registry
MaxControls == 2
\* most results in the control registry's log
MaxResults == 2
\* most evidence references of a control
MaxEvidence == 1
\* days the clock may advance past StartTime
MaxDays == 1
\* most ticks the clock advances within a day while handlers run
MaxSubTicks == 2

\* 2025-08-31T00:00:00: six months before it is "February 31", that is March
\* 3, and six months before the next day is March 1
StartTime == Date(2025, 8, 31) * TicksPerDay

Horizon == StartTime + MaxDays * TicksPerDay

\* the clock read by time.Now() when the last reading was t: it does not go
\* back, and a handler runs within a tick or two
ClockReads(t) == {u \in {t, t + 1} : u % TicksPerDay <= MaxSubTicks}

IDs == {"ctrl-001", "ctrl-002"}
LookupIDs == IDs \cup {"ctrl-999"}
Names == {"Access Control Policy", "Multi-Factor Authentication"}
Categories == {"preventive", "detective"}
Statuses == {"implemented", "partially_implemented", "not_implemented",
             "deprecated", "", "unknown"}
Owners == {"", "Security Team"}
RiskReductions == {Lit(0), Lit(30)}
RECURSIVE EvidenceOfLen(_)
EvidenceOfLen(n) ==
    IF n = 0 THEN <<>> ELSE Append(EvidenceOfLen(n - 1), "policy-access-control.pdf")
EvidenceLists == {EvidenceOfLen(n) : n \in 0..MaxEvidence}
\* unset; March 2 (between the six-month boundaries of August 31 and of
\* September 1); three months before the start; a tick after the six-month
\* boundary of the start
LastVerifieds == {ZeroTime, Date(2025, 3, 2) * TicksPerDay,
                  AddDate(StartTime, 0, -3, 0),
                  AddDate(StartTime, 0, -6, 0) + 1}

\* SecurityControl: the fields the registry reads
SecurityControl(id, name, cat, rr, owner, status, lv, ev) ==
    [ID |-> id, Name |-> name, Category |-> cat, RiskReduction |-> rr,
     Owner |-> owner, Status |-> status, LastVerified |-> lv, Evidence |-> ev]

AllControls ==
    {SecurityControl(id, name, cat, rr, owner, status, lv, ev) :
        id \in IDs, name \in Names, cat \in Categories, rr \in RiskReductions,
        owner \in Owners, status \in Statuses, lv \in LastVerifieds,
        ev \in EvidenceLists}

\* the controls whose scoring is explored: every risk reduction, owner,
\* status, last verification and evidence list
ScoreControls ==
    {c \in AllControls : c.ID = "ctrl-001" /\ c.Name = "Access Control Policy"
                         /\ c.Category = "preventive"}

\* the controls handed to AddControl: a sound one and a broken one that share
\* the id ctrl-001, and a deprecated one, verified on March 2, under ctrl-002
ControlInputs ==
    {c \in AllControls :
        \/ /\ c.ID = "ctrl-001"
           /\ c.Name = "Access Control Policy" /\ c.Category = "preventive"
           /\ c.RiskReduction = Lit(30) /\ c.Owner = "Security Team"
           /\ c.Status = "implemented" /\ Len(c.Evidence) = MaxEvidence
           /\ c.LastVerified = AddDate(StartTime, 0, -3, 0)
        \/ /\ c.ID = "ctrl-001"
           /\ c.Name = "Multi-Factor Authentication" /\ c.Category = "detective"
           /\ c.RiskReduction = Lit(0) /\ c.Owner = ""
           /\ c.Status = "not_implemented" /\ Len(c.Evidence) = 0
           /\ c.LastVerified = ZeroTime
        \/ /\ c.ID = "ctrl-002"
           /\ c.Name = "Multi-Factor Authentication" /\ c.Category = "preventive"
           /\ c.RiskReduction = Lit(30) /\ c.Owner = "Security Team"
           /\ c.Status = "deprecated" /\ Len(c.Evidence) = MaxEvidence
           /\ c.LastVerified = Date(2025, 3, 2) * TicksPerDay}

----------------------------------------------------------------------------
(* pkg/control: the control registry *)

\* getControlByID returning the first control when none matches
getControlByIDOrFirst(cs, id) ==
    IF \E i \in 1..Len(cs) : cs[i].ID = id
    THEN CHOOSE i \in 1..Len(cs) :
            cs[i].ID = id /\ \A j \in 1..(i - 1) : cs[j].ID # id
    ELSE IF Len(cs) > 0 THEN 1 ELSE 0

\* getControlByID returning the last match
getControlByIDLast(cs, id) ==
    IF \E i \in 1..Len(cs) : cs[i].ID = id
    THEN CHOOSE i \in 1..Len(cs) :
            cs[i].ID = id /\ \A j \in (i + 1)..Len(cs) : cs[j].ID # id
    ELSE 0

\* getControlByID: the index of the first control with this id, 0 for nil
getControlByID(cs, id) ==
    IF \E i \in 1..Len(cs) : cs[i].ID = id
    THEN CHOOSE i \in 1..Len(cs) :
            cs[i].ID = id /\ \A j \in 1..(i - 1) : cs[j].ID # id
    ELSE 0

\* an effectiveness that drops to the default without evidence
validateControlImplementationByEvidence(control) ==
    IF control.Status = "implemented" /\ Len(control.Evidence) > 0 THEN Lit(90)
    ELSE IF control.Status = "partially_implemented" THEN Lit(60)
    ELSE IF control.Status = "not_implemented" THEN Lit(0)
    ELSE Lit(70)

\* an effectiveness in percent: 90.0, 60.0, 0.0, 70.0
validateControlImplementationPercent(control) ==
    IF control.Status = "implemented" THEN Flt(9000, 0)
    ELSE IF control.Status = "partially_implemented" THEN Flt(6000, 0)
    ELSE IF control.Status = "not_implemented" THEN Flt(0, 0)
    ELSE Flt(7000, 0)

validateControlImplementation(control) ==
    IF control.Status = "implemented" THEN Lit(90)
    ELSE IF control.Status = "partially_implemented" THEN Lit(60)
    ELSE IF control.Status = "not_implemented" THEN Lit(0)
    ELSE Lit(70)

\* identifyIssues asking for a verification in the last three months
identifyIssuesThreeMonths(control, t) ==
    (IF Len(control.Evidence) = 0
        THEN <<"No evidence provided for control implementation">> ELSE <<>>)
    \o (IF IsZero(control.LastVerified)
           \/ Before(control.LastVerified, AddDate(t, 0, -3, 0))
        THEN <<"Control not verified in last 6 months">> ELSE <<>>)
    \o (IF control.Owner = ""
        THEN <<"Control owner not assigned">> ELSE <<>>)

\* identifyIssues checking the owner before the evidence
identifyIssuesOwnerFirst(control, t) ==
    (IF control.Owner = ""
        THEN <<"Control owner not assigned">> ELSE <<>>)
    \o (IF Len(control.Evidence) = 0
        THEN <<"No evidence provided for control implementation">> ELSE <<>>)
    \o (IF IsZero(control.LastVerified)
           \/ Before(control.LastVerified, AddDate(t, 0, -6, 0))
        THEN <<"Control not verified in last 6 months">> ELSE <<>>)

\* identifyIssues without the evidence check
identifyIssuesEvidenceOptional(control, t) ==
    (IF IsZero(control.LastVerified)
           \/ Before(control.LastVerified, AddDate(t, 0, -6, 0))
        THEN <<"Control not verified in last 6 months">> ELSE <<>>)
    \o (IF control.Owner = ""
        THEN <<"Control owner not assigned">> ELSE <<>>)

\* identifyIssues, with t the time.Now() it reads
identifyIssues(control, t) ==
    (IF Len(control.Evidence) = 0
        THEN <<"No evidence provided for control implementation">> ELSE <<>>)
    \o (IF IsZero(control.LastVerified)
           \/ Before(control.LastVerified, AddDate(t, 0, -6, 0))
        THEN <<"Control not verified in last 6 months">> ELSE <<>>)
    \o (IF control.Owner = ""
        THEN <<"Control owner not assigned">> ELSE <<>>)

\* a confidence that loses 0.1 once, however many issues there are
calculateConfidenceFlatPenalty(control, issues) ==
    LET c0 == Lit(50)
        c1 == IF Len(control.Evidence) > 0 THEN FAdd(c0, Lit(20)) ELSE c0
        c2 == IF Len(issues) = 0 THEN FAdd(c1, Lit(30))
              ELSE FSub(c1, Lit(10))
    IN  IF FLt(c2, Lit(0)) THEN Lit(0)
        ELSE IF FGt(c2, Lit(100)) THEN Lit(100)
        ELSE c2

calculateConfidence(control, issues) ==
    LET c0 == Lit(50)
        c1 == IF Len(control.Evidence) > 0 THEN FAdd(c0, Lit(20)) ELSE c0
        c2 == IF Len(issues) = 0 THEN FAdd(c1, Lit(30))
              ELSE FSub(c1, FMulInt(Len(issues), Lit(10)))
    IN  IF FLt(c2, Lit(0)) THEN Lit(0)
        ELSE IF FGt(c2, Lit(100)) THEN Lit(100)
        ELSE c2

\* a mapping that does not know the owner issue
recommendationForNoOwner(issue) ==
    IF issue = "No evidence provided for control implementation"
        THEN "Provide evidence of control implementation"
    ELSE IF issue = "Control not verified in last 6 months"
        THEN "Schedule control verification"
    ELSE "Address: " \o issue

\* the recommendation generateRecommendations gives for an issue
recommendationFor(issue) ==
    IF issue = "No evidence provided for control implementation"
        THEN "Provide evidence of control implementation"
    ELSE IF issue = "Control not verified in last 6 months"
        THEN "Schedule control verification"
    ELSE IF issue = "Control owner not assigned"
        THEN "Assign control owner"
    ELSE "Address: " \o issue

generateRecommendations(control, issues) ==
    [i \in 1..Len(issues) |-> recommendationFor(issues[i])]

\* a status by the effectiveness alone
overallStatusByScore(issues, effective) ==
    IF FGe(effective, Lit(90)) THEN "EFFECTIVE"
    ELSE IF FGe(effective, Lit(70)) THEN "PARTIALLY_EFFECTIVE"
    ELSE "INEFFECTIVE"

\* the overall status of ValidateControl
overallStatus(issues, effective) ==
    IF Len(issues) = 0 /\ FGe(effective, Lit(90)) THEN "EFFECTIVE"
    ELSE IF FGe(effective, Lit(70)) THEN "PARTIALLY_EFFECTIVE"
    ELSE "INEFFECTIVE"

\* the ControlValidationResult ValidateControl builds for a control, t1 and t2
\* being its two readings of the clock
validationResult(control, t1, t2) ==
    LET effective == validateControlImplementation(control)
        issues == identifyIssues(control, t2)
    IN  [ControlID |-> control.ID,
         ControlName |-> control.Name,
         Status |-> overallStatus(issues, effective),
         Effectiveness |-> effective,
         Confidence |-> calculateConfidence(control, issues),
         Issues |-> issues,
         Evidence |-> <<>>,
         Recommendations |-> generateRecommendations(control, issues),
         ValidatedAt |-> t1]

\* a log that keeps one result per control id
appendResultDedup(log, result) ==
    IF \E i \in 1..Len(log) : log[i].ControlID = result.ControlID
    THEN [i \in 1..Len(log) |->
            IF log[i].ControlID = result.ControlID THEN result ELSE log[i]]
    ELSE Append(log, result)

\* the log after ValidateControl has built result
appendResult(log, result) == Append(log, result)

\* a call and what it returned: a pointer is <<>> (nil) or <<value>>
Call(op, arg, val) == [op |-> op, arg |-> arg, val |-> val]

\* an AddControl that puts the new control first
AddControlFirst(control) ==
    /\ controls' = <<control>> \o controls
    /\ ret' = Call("AddControl", control.ID, <<>>)
    /\ UNCHANGED <<results, now>>

AddControl(control) ==
    /\ controls' = Append(controls, control)
    /\ ret' = Call("AddControl", control.ID, <<>>)
    /\ UNCHANGED <<results, now>>

ValidateControl(controlID) ==
    LET i == getControlByID(controls, controlID)
    IN  IF i = 0
        THEN /\ ret' = Call("ValidateControl", controlID, <<>>)
             /\ UNCHANGED <<controls, results, now>>
        ELSE /\ \E t1 \in ClockReads(now) : \E t2 \in ClockReads(t1) :
                  LET result == validationResult(controls[i], t1, t2)
                  IN  /\ results' = appendResult(results, result)
                      /\ ret' = Call("ValidateControl", controlID, <<result>>)
                      /\ now' = t2
             /\ UNCHANGED controls

GetControl(id) ==
    LET i == getControlByID(controls, id)
    IN  /\ ret' = Call("GetControl", id,
                       IF i = 0 THEN <<>> ELSE <<controls[i]>>)
        /\ UNCHANGED <<controls, results, now>>

\* GetControls: the registry's own slice
GetControls ==
    /\ ret' = Call("GetControls", "", controls)
    /\ UNCHANGED <<controls, results, now>>

\* the controls of the category, in registry order
GetControlsByCategory(category) ==
    /\ ret' = Call("GetControlsByCategory", category,
                   SelectSeq(controls, LAMBDA c : c.Category = category))
    /\ UNCHANGED <<controls, results, now>>

\* the controls with the status, in registry order
GetControlsByStatus(status) ==
    /\ ret' = Call("GetControlsByStatus", status,
                   SelectSeq(controls, LAMBDA c : c.Status = status))
    /\ UNCHANGED <<controls, results, now>>

GetValidationResults ==
    /\ ret' = Call("GetValidationResults", "", results)
    /\ UNCHANGED <<controls, results, now>>

\* fmt.Sprintf("%.1f%%", x*100) for 0 <= x: the float64 product, then the
\* decimal with one digit after the point that is nearest to it (ties to even)
Percent1(x) ==
    LET y == FMulInt(100, x)
        q == y.k \div 10
        r == y.k % 10
        tenths == IF r < 5 \/ (r = 5 /\ y.e < 0) THEN q
                  ELSE IF r > 5 \/ (r = 5 /\ y.e > 0) THEN q + 1
                  ELSE IF q % 2 = 0 THEN q ELSE q + 1
    IN  ToString(tenths \div 10) \o "." \o ToString(tenths % 10) \o "%"

RECURSIVE numberedLines(_, _)
\* the lines "      [j] text" of a list, from its j-th entry on
numberedLines(list, j) ==
    IF j > Len(list) THEN ""
    ELSE "      [" \o ToString(j) \o "] " \o list[j] \o "\n"
            \o numberedLines(list, j + 1)

\* the part of the report on the i-th result
reportEntry(i, result) ==
    "\n[" \o ToString(i) \o "] " \o result.ControlName \o "\n"
    \o "    ID: " \o result.ControlID \o "\n"
    \o "    Status: " \o result.Status \o "\n"
    \o "    Effectiveness: " \o Percent1(result.Effectiveness) \o "\n"
    \o "    Confidence: " \o Percent1(result.Confidence) \o "\n\n"
    \o (IF Len(result.Issues) > 0
        THEN "    Issues:\n" \o numberedLines(result.Issues, 1) \o "\n"
        ELSE "")
    \o (IF Len(result.Recommendations) > 0
        THEN "    Recommendations:\n"
                \o numberedLines(result.Recommendations, 1) \o "\n"
        ELSE "")

RECURSIVE reportEntries(_, _)
reportEntries(rs, i) ==
    IF i > Len(rs) THEN "" ELSE reportEntry(i, rs[i]) \o reportEntries(rs, i + 1)

\* the text GenerateReport returns for a log
reportText(rs) ==
    "=== Security Control Validation Report ===\n\n"
    \o (IF Len(rs) = 0 THEN "No controls validated yet\n"
        ELSE "Validation Results:\n" \o reportEntries(rs, 1))

GenerateReport ==
    /\ ret' = Call("GenerateReport", "", reportText(results))
    /\ UNCHANGED <<controls, results, now>>

\* the wall clock moves on a day between calls
Tick ==
    /\ now + TicksPerDay <= Horizon
    /\ now' = now + TicksPerDay
    /\ UNCHANGED <<controls, results, tests, tresults, ret, pc, validateCalls>>

\* what a call on the control registry leaves alone
RegistryFrame == UNCHANGED <<tests, tresults, pc, validateCalls>>

----------------------------------------------------------------------------

(* pkg/validate: the test registry *)

\* most tests held by the test registry
MaxTests == 2
\* most Validate() calls
MaxValidates == 2

\* ControlTest: the fields the registry reads, and the Passed flag
ControlTest(id, name, method, passed) ==
    [ID |-> id, Name |-> name, Method |-> method, Passed |-> passed]

TestInputs ==
    {ControlTest("test-001", "Access Control Verification", "testing", passed) :
        passed \in BOOLEAN}
    \cup {ControlTest("test-002", "Monitoring Verification", "observation",
                      passed) : passed \in BOOLEAN}

\* validateControlTest taking the test's own Passed flag for the outcome
validateControlTestByFlag(test, tID, tAt) ==
    LET passed == test.Passed
        effectiveness == Lit(80)
    IN  [ID |-> <<"val-", FormatSeconds(tID)>>,
         ControlID |-> test.ID,
         ControlName |-> test.Name,
         TestPassed |-> passed,
         ValidationResult |-> IF passed THEN "PASS" ELSE "FAIL",
         Effectiveness |-> effectiveness,
         RiskRemaining |-> FSub(One, effectiveness),
         Recommendations |->
            IF passed THEN <<>>
            ELSE <<"Review and fix control implementation">>,
         ValidatedAt |-> tAt]

\* validateControlTest, tID and tAt being its two readings of the clock (for
\* the id and for ValidatedAt)
validateControlTest(test, tID, tAt) ==
    LET passed == TRUE
        effectiveness == Lit(80)
        result == [ID |-> <<"val-", FormatSeconds(tID)>>,
                   ControlID |-> test.ID,
                   ControlName |-> test.Name,
                   TestPassed |-> passed,
                   ValidationResult |-> "PASS",
                   Effectiveness |-> effectiveness,
                   RiskRemaining |-> FSub(One, effectiveness),
                   Recommendations |-> <<>>,
                   ValidatedAt |-> tAt]
    IN  IF ~passed
        THEN [result EXCEPT
                !.ValidationResult = "FAIL",
                !.Recommendations =
                    Append(@, "Review and fix control implementation")]
        ELSE result

RECURSIVE validateLoop(_, _, _, _)
\* the loop of Validate from test i on, the clock last read as t and acc the
\* results so far: every way it can end, as the results and the last reading
validateLoop(ts, i, t, acc) ==
    IF i > Len(ts) THEN {[results |-> acc, clock |-> t]}
    ELSE UNION {UNION {validateLoop(ts, i + 1, tAt,
                           Append(acc, validateControlTest(ts[i], tID, tAt))) :
                       tAt \in ClockReads(tID)} :
                tID \in ClockReads(t)}

\* a log to which Validate appends
storeResultsAppending(log, new) == log \o new

\* v.results = results: the log after Validate
storeResults(log, new) == new

\* what a call on the test registry leaves alone
TestFrame == UNCHANGED <<controls, results, pc>>

AddControlTest(test) ==
    /\ tests' = Append(tests, test)
    /\ ret' = Call("AddControlTest", test.ID, <<>>)
    /\ UNCHANGED <<tresults, now, validateCalls>>

\* Validate(): ret.val is the slice it returns
Validate ==
    /\ \E run \in validateLoop(tests, 1, now, <<>>) :
          /\ tresults' = storeResults(tresults, run.results)
          /\ ret' = Call("Validate", "", run.results)
          /\ now' = run.clock
    /\ validateCalls' = validateCalls + 1
    /\ UNCHANGED tests

GetResults ==
    /\ ret' = Call("GetResults", "", tresults)
    /\ UNCHANGED <<tests, tresults, now, validateCalls>>

----------------------------------------------------------------------------
(* main: the validate command *)

\* CreateCommonControls, t being its four readings of the clock
CreateCommonControls(t) ==
    <<SecurityControl("ctrl-001", "Access Control Policy", "preventive",
                      Lit(30), "Security Team", "implemented",
                      AddDate(t[1], 0, -3, 0),
                      <<"policy-access-control.pdf", "iam-configuration.json">>),
      SecurityControl("ctrl-002", "Multi-Factor Authentication", "preventive",
                      Lit(40), "IT Operations", "implemented",
                      AddDate(t[2], 0, -1, 0),
                      <<"mfa-configuration.json", "audit-log.json">>),
      SecurityControl("ctrl-003", "Security Monitoring", "detective",
                      Lit(35), "SOC Team", "implemented",
                      AddDate(t[3], 0, -2, 0),
                      <<"siem-config.json", "monitoring-report.pdf">>),
      SecurityControl("ctrl-004", "Incident Response Plan", "corrective",
                      Lit(25), "Security Team", "implemented",
                      AddDate(t[4], 0, -4, 0),
                      <<"ir-plan.pdf", "test-results.pdf">>)>>

\* the readings of the clock by n calls of time.Now() in a row, the last
\* reading before them being t
RECURSIVE ClockReadings(_, _)
ClockReadings(n, t) ==
    IF n = 0 THEN {<<>>}
    ELSE UNION {{<<u>> \o rest : rest \in ClockReadings(n - 1, u)} :
                u \in ClockReads(t)}

\* validateControls, up to its loop: a new registry is seeded with the common
\* controls
CliSeed ==
    /\ pc.fn = "idle"
    /\ \E t \in ClockReadings(4, now) :
          /\ controls' = controls \o CreateCommonControls(t)
          /\ now' = t[4]
    /\ pc' = [fn |-> "validateControls", i |-> 1]
    /\ ret' = Call("AddControl", "ctrl-004", <<>>)
    /\ UNCHANGED <<results, tests, tresults, validateCalls>>

\* validateControls, one turn of its loop: commonControls[i] is validated
CliValidate ==
    /\ pc.fn = "validateControls"
    /\ pc.i <= Len(controls)
    /\ ValidateControl(controls[pc.i].ID)
    /\ pc' = [pc EXCEPT !.i = @ + 1]
    /\ UNCHANGED <<tests, tresults, validateCalls>>

\* validateControls, after its loop: the report is printed
CliReport ==
    /\ pc.fn = "validateControls"
    /\ pc.i > Len(controls)
    /\ pc' = [fn |-> "done", i |-> pc.i]
    /\ GenerateReport
    /\ UNCHANGED <<tests, tresults, validateCalls>>

\* what printUsage writes
usageText ==
    "securitycontrol - Security Control Validation Engine\n\n"
    \o "Usage:\n  securitycontrol <command> [options]\n\n"
    \o "Commands:\n"
    \o "  validate     Validate all security controls\n"
    \o "  test <id>    Test specific control\n"
    \o "  controls     List available controls\n"
    \o "  report       Generate validation report\n"
    \o "  status       Check control status\n"
    \o "  version      Show version information\n"
    \o "  help         Show this help message\n\n"
    \o "Examples:\n"
    \o "  securitycontrol validate\n"
    \o "  securitycontrol test ctrl-001\n"
    \o "  securitycontrol controls\n"

\* os.Args of the runs "test" and "test <id>": no id, ids of built-in controls
\* and tests, an id of neither
TestArgs ==
    {<<"securitycontrol", "test">>}
    \cup {<<"securitycontrol", "test", id>> :
            id \in {"ctrl-001", "ctrl-004", "test-001", "ctrl-999"}}

\* main, case "test": ret.val is what the run wrote to standard output (the
\* call of testControl is commented out, and so is testControl)
CliTest(args) ==
    /\ pc.fn = "idle"
    /\ Len(args) >= 2 /\ args[2] = "test"
    /\ IF Len(args) < 3
       THEN ret' = Call("test", "", "Error: control ID required\n" \o usageText)
       ELSE ret' = Call("test", args[3], "")
    /\ pc' = [fn |-> "done", i |-> Len(args)]
    /\ UNCHANGED <<controls, results, tests, tresults, now, validateCalls>>

----------------------------------------------------------------------------

NoCall == Call("none", "", <<>>)

Idle == [fn |-> "idle", i |-> 0]

Init ==
    /\ controls = <<>>
    /\ results = <<>>
    /\ tests = <<>>
    /\ tresults = <<>>
    /\ now = StartTime
    /\ ret = NoCall
    /\ pc = Idle
    /\ validateCalls = 0

\* the statuses asked for: one that several controls can share, one that one
\* control has, one that none has
QueryStatuses == {"implemented", "deprecated", "partially_implemented"}

\* the log has room for the result of validating id, or id is not held
LogRoom(id) == Len(results) < MaxResults \/ getControlByID(controls, id) = 0

\* the control registry under any sequence of calls
Next ==
    \/ \E c \in ControlInputs :
         Len(controls) < MaxControls /\ AddControl(c) /\ RegistryFrame
    \/ \E id \in LookupIDs : LogRoom(id) /\ ValidateControl(id) /\ RegistryFrame
    \/ \E id \in LookupIDs : GetControl(id) /\ RegistryFrame
    \/ Tick

Spec == Init /\ [][Next]_vars

\* the control registry with its queries and its report, called in any order
\* within a day
NextQueries ==
    \/ \E c \in ControlInputs :
         Len(controls) < MaxControls /\ AddControl(c) /\ RegistryFrame
    \/ \E id \in LookupIDs : LogRoom(id) /\ ValidateControl(id) /\ RegistryFrame
    \/ GetControls /\ RegistryFrame
    \/ \E category \in Categories :
         GetControlsByCategory(category) /\ RegistryFrame
    \/ \E status \in QueryStatuses :
         GetControlsByStatus(status) /\ RegistryFrame
    \/ GetValidationResults /\ RegistryFrame
    \/ GenerateReport /\ RegistryFrame

SpecQueries == Init /\ [][NextQueries]_vars

\* the scoring of one control: any control, any of the times
InitScore ==
    /\ \E c \in ScoreControls : controls = <<c>>
    /\ results = <<>>
    /\ tests = <<>>
    /\ tresults = <<>>
    /\ now = StartTime
    /\ ret = NoCall
    /\ pc = Idle
    /\ validateCalls = 0

NextScore ==
    \/ \E id \in LookupIDs : LogRoom(id) /\ ValidateControl(id) /\ RegistryFrame
    \/ Tick

SpecScore == InitScore /\ [][NextScore]_vars

\* the test registry under any sequence of calls
NextTests ==
    \/ \E t \in TestInputs :
         Len(tests) < MaxTests /\ AddControlTest(t) /\ TestFrame
    \/ validateCalls < MaxValidates /\ Validate /\ TestFrame
    \/ GetResults /\ TestFrame
    \/ Tick

SpecTests == Init /\ [][NextTests]_vars

\* the command "validate", the clock moving on as it runs
NextCommon ==
    \/ CliSeed
    \/ CliValidate
    \/ CliReport
    \/ Tick

SpecCommon == Init /\ [][NextCommon]_vars

\* one run of the program, as "validate" or as "test"
NextMain ==
    \/ \E args \in TestArgs : CliTest(args)
    \/ CliSeed
    \/ CliValidate
    \/ CliReport
    \/ Tick

SpecMain == Init /\ [][NextMain]_vars

----------------------------------------------------------------------------
(* the claims *)

\* no control of the registry has this id
Absent(id) == \A i \in 1..Len(controls) : controls[i].ID # id

\* the first control of the registry with this id (one exists)
Earliest(id) ==
    controls[CHOOSE i \in 1..Len(controls) :
                controls[i].ID = id /\ \A j \in 1..(i - 1) : controls[j].ID # id]

\* this step is a call ValidateControl(id) that returned something new or
\* changed the log (only ValidateControl leaves its name in ret)
ValidateControlStep(id) ==
    /\ ret'.op = "ValidateControl" /\ ret'.arg = id
    /\ (ret' # ret \/ results' # results)

\* C1: ValidateControl(id) with an id that matches no control of the registry
\* returns nil and leaves the result log as it was, whatever the registry
\* holds and whatever was called before.
C1_NotFoundReturnsNilAndLogsNothing ==
    [][\A id \in LookupIDs :
          (Absent(id) /\ ValidateControl(id))
              => (ret'.val = <<>> /\ results' = results)]_vars

\* an unknown id was validated on a registry that holds controls and results
C1_Witness ==
    /\ ret = Call("ValidateControl", "ctrl-999", <<>>)
    /\ Len(controls) > 0
    /\ Len(results) > 0

\* C2: every ValidateControl call that finds its control appends exactly one
\* result, the one it returns, at the end of the log and leaves the earlier
\* entries as they were, also for a control validated before; no other step
\* changes the log.  So the log is the sequence of the found calls' results in
\* call order, and its length is their number.
C2_FoundCallAppendsOneResult ==
    [][/\ \A id \in LookupIDs :
            (~Absent(id) /\ ValidateControlStep(id))
                => /\ Len(ret'.val) = 1
                   /\ results' = results \o ret'.val
       /\ results' # results
            => \E id \in LookupIDs : ~Absent(id) /\ ValidateControlStep(id)]_vars

\* the same control was validated twice: the log holds both results
C2_Witness ==
    /\ Len(results) = 2
    /\ results[1].ControlID = results[2].ControlID
    /\ ret.op = "ValidateControl" /\ ret.val = <<results[2]>>

\* C10: AddControl accepts a control whose id the registry already holds (the
\* collection grows by one on every call), and ValidateControl(id) and
\* GetControl(id) use the control with that id that was added first: name,
\* effectiveness, issues and status of the result are those of the earliest.
C10_DuplicateIdsFirstMatchWins ==
    [][/\ \A c \in ControlInputs :
            AddControl(c) => Len(controls') = Len(controls) + 1
       /\ \A id \in LookupIDs :
            (~Absent(id) /\ ValidateControlStep(id))
                => LET c == Earliest(id)
                       r == ret'.val[1]
                       issues == identifyIssues(c, now')
                   IN  /\ Len(ret'.val) = 1
                       /\ r.ControlID = id
                       /\ r.ControlName = c.Name
                       /\ r.Effectiveness = validateControlImplementation(c)
                       /\ r.Issues = issues
                       /\ r.Status = overallStatus(issues, r.Effectiveness)
       /\ \A id \in LookupIDs :
            (~Absent(id) /\ GetControl(id)) => ret'.val = <<Earliest(id)>>]_vars

\* two controls share an id and differ, and the id was validated: the result
\* carries the first one's name
C10_Witness ==
    /\ Len(controls) = 2
    /\ controls[1].ID = controls[2].ID
    /\ controls[1].Name # controls[2].Name
    /\ controls[1].Status # controls[2].Status
    /\ ret.op = "ValidateControl" /\ Len(ret.val) = 1
    /\ ret.val[1].ControlName = controls[1].Name

\* every result in the registry's log
Logged == {results[i] : i \in 1..Len(results)}

\* C4: the status label of every result is decided by its issue count and
\* its effectiveness alone: EFFECTIVE with no issue and effectiveness >= 0.9,
\* else PARTIALLY_EFFECTIVE with effectiveness >= 0.7, else INEFFECTIVE; no
\* logged result keeps the label VALIDATING.
C4_StatusFromIssuesAndEffectiveness ==
    \A r \in Logged :
        /\ r.Status # "VALIDATING"
        /\ r.Status =
             IF Len(r.Issues) = 0 /\ FGe(r.Effectiveness, Lit(90))
                THEN "EFFECTIVE"
             ELSE IF FGe(r.Effectiveness, Lit(70)) THEN "PARTIALLY_EFFECTIVE"
             ELSE "INEFFECTIVE"

\* an effectiveness of 0.9 with an issue, labelled PARTIALLY_EFFECTIVE, and
\* the same effectiveness without issue, labelled EFFECTIVE
C4_Witness ==
    /\ Len(results) = 2
    /\ results[1].Status = "PARTIALLY_EFFECTIVE"
    /\ results[1].Effectiveness = Lit(90)
    /\ Len(results[1].Issues) > 0
    /\ results[2].Status = "EFFECTIVE"
    /\ results[2].Effectiveness = Lit(90)

\* C5: the status of every result is decided by its effectiveness score as
\* in the README's table: 90% or more EFFECTIVE, 70% to 89%
\* PARTIALLY_EFFECTIVE, below 70% INEFFECTIVE.
C5_StatusByScoreAsInReadme ==
    \A r \in Logged :
        r.Status =
            IF FGe(r.Effectiveness, Lit(90)) THEN "EFFECTIVE"
            ELSE IF FGe(r.Effectiveness, Lit(70)) THEN "PARTIALLY_EFFECTIVE"
            ELSE "INEFFECTIVE"

\* C6: the effectiveness of a result depends on the control's status only:
\* implemented 0.9, partially implemented 0.6, not implemented 0.0, any other
\* status 0.7, whatever risk reduction, evidence, owner and last verification.
C6_EffectivenessFromStatusOnly ==
    \A r \in Logged :
        LET status == controls[1].Status
        IN  r.Effectiveness =
                CASE status = "implemented" -> Lit(90)
                  [] status = "partially_implemented" -> Lit(60)
                  [] status = "not_implemented" -> Lit(0)
                  [] OTHER -> Lit(70)

\* a control that is not implemented, with evidence, an owner, a recent
\* verification and a risk reduction of 0.3, scored 0.0
C6_Witness ==
    /\ Len(results) > 0
    /\ controls[1].Status = "not_implemented"
    /\ Len(controls[1].Evidence) > 0
    /\ controls[1].Owner # ""
    /\ controls[1].RiskReduction = Lit(30)
    /\ Len(results[1].Issues) = 0
    /\ results[1].Effectiveness = Lit(0)

\* C7: every logged result has effectiveness and confidence in [0,1].
C7_FractionsWithinUnitInterval ==
    \A r \in Logged :
        /\ FLe(Lit(0), r.Effectiveness) /\ FLe(r.Effectiveness, One)
        /\ FLe(Lit(0), r.Confidence) /\ FLe(r.Confidence, One)

\* the extremes: three issues and no evidence (the least confidence), then,
\* a day later, still three issues
C7_Witness ==
    /\ Len(results) = 2
    /\ Len(results[1].Issues) = 3
    /\ Len(controls[1].Evidence) = 0
    /\ FLt(results[1].Confidence, Lit(30))
    /\ results[2].ValidatedAt >= results[1].ValidatedAt + TicksPerDay

\* this step is a call of Validate()
ValidateStep == validateCalls' = validateCalls + 1

\* C3 as claimed: the test registry's log is append-only; a Validate() call
\* keeps the results of the earlier calls and adds one result per test, so k
\* calls on n tests leave k*n results.
C3_TestLogAccumulates ==
    [][ValidateStep
          => /\ Len(tresults') = Len(tresults) + Len(tests)
             /\ \A i \in 1..Len(tresults) : tresults'[i] = tresults[i]]_vars

\* C3 amended: a Validate() call replaces the log by the results it returns,
\* one per held test, so after any number (>= 1) of calls on n tests the log
\* holds n results, those of the last call; GetResults returns that log.
C3_ValidateReplacesTestLog ==
    [][/\ ValidateStep
            => /\ tresults' = ret'.val
               /\ Len(tresults') = Len(tests)
       /\ (ret'.op = "GetResults" /\ ret' # ret) => ret'.val = tresults]_vars

\* two Validate() calls on a registry of two tests: two results, not four
C3_Witness ==
    /\ validateCalls = 2
    /\ Len(tests) = 2
    /\ Len(tresults) = 2
    /\ ret.op = "Validate"

\* the four common controls, by id
CommonIDs == <<"ctrl-001", "ctrl-002", "ctrl-003", "ctrl-004">>

PassResults(rs) ==
    /\ Len(rs) = Len(tests)
    /\ \A i \in 1..Len(rs) :
          /\ rs[i].ControlID = tests[i].ID
          /\ rs[i].ControlName = tests[i].Name
          /\ rs[i].TestPassed = TRUE
          /\ rs[i].ValidationResult = "PASS"
          /\ rs[i].ValidationResult # "FAIL"
          /\ rs[i].Recommendations = <<>>
          /\ rs[i].Effectiveness = Lit(80)
          /\ FAdd(rs[i].RiskRemaining, rs[i].Effectiveness) = One

\* C9 as claimed: the risk remaining of every result is 0.2.
C9_ValidateAlwaysPassesRisk02 ==
    ret.op = "Validate"
        => /\ PassResults(ret.val)
           /\ \A i \in 1..Len(ret.val) : ret.val[i].RiskRemaining = Lit(20)

\* C9 amended: the risk remaining is the float64 difference 1.0 - 0.8, which
\* is 0.19999999999999996, 2^-54 below the float64 0.2; added to the
\* effectiveness it gives 1.0.
C9_ValidateAlwaysPasses ==
    ret.op = "Validate"
        => /\ PassResults(ret.val)
           /\ \A i \in 1..Len(ret.val) :
                /\ ret.val[i].RiskRemaining = FSub(One, Lit(80))
                /\ ret.val[i].RiskRemaining = Flt(20, Lit(20).e - 400)

\* Validate() on two tests whose Passed flags are false, and on none
C9_Witness ==
    /\ ret.op = "Validate"
    /\ Len(tests) = 2
    /\ Len(ret.val) = 2
    /\ ~tests[1].Passed /\ ~tests[2].Passed
    /\ tests[1].ID # tests[2].ID
    /\ validateCalls = 2

\* C11: the command "test <id>" tests that control: a run with the arguments
\* test ctrl-001 performs a test and reports its outcome, so it does not end
\* with nothing tested and nothing written.
C11_TestCommandTestsControl ==
    (pc.fn = "done" /\ ret.op = "test" /\ pc.i >= 3)
        => (ret.val # "" \/ Len(tresults) > 0 \/ Len(results) > 0)

\* C12: controls are never changed after they are added.  A step that changes
\* the registry's controls is an AddControl, and it puts one control after
\* the ones held, which stay as they were and in their order; ValidateControl
\* (found or not), GetControlsByCategory, GetControlsByStatus,
\* GetValidationResults and GenerateReport leave the controls as they are.
C12_ControlsOnlyAppended ==
    [][/\ ret'.op \in {"ValidateControl", "GetControlsByCategory",
                       "GetControlsByStatus", "GetValidationResults",
                       "GenerateReport"}
            => controls' = controls
       /\ ret'.op = "AddControl"
            => /\ Len(controls') = Len(controls) + 1
               /\ SubSeq(controls', 1, Len(controls)) = controls
               /\ controls'[Len(controls')].ID = ret'.arg
       /\ controls' # controls => ret'.op = "AddControl"]_vars

\* two different controls were added, both validated, and the report made
C12_Witness ==
    /\ Len(controls) = 2
    /\ controls[1] # controls[2]
    /\ Len(results) = 2
    /\ results[1].ControlID # results[2].ControlID
    /\ ret.op = "GenerateReport"

\* the three issue texts, in the order of the checks
EvidenceIssue == "No evidence provided for control implementation"
RecencyIssue == "Control not verified in last 6 months"
OwnerIssue == "Control owner not assigned"
IssueOrder == <<EvidenceIssue, RecencyIssue, OwnerIssue>>

\* the entries of a list, as a set
Entries(list) == {list[i] : i \in 1..Len(list)}

\* the place of an issue text in the order of the checks
Rank(issue) == CHOOSE k \in 1..3 : IssueOrder[k] = issue

\* x clamped to [0,1]
Clamp01(x) == IF FLt(x, Lit(0)) THEN Lit(0) ELSE IF FGt(x, One) THEN One ELSE x

\* C13: the confidence of a result is the clamp to [0,1] of 0.5, plus 0.2
\* when the control has evidence, plus 0.3 when the result lists no issue and
\* else minus 0.1 times the number of issues the same result lists (float64
\* arithmetic); it is within 2^-53 of that sum taken in the reals.
C13_ConfidenceFormula ==
    \A r \in Logged :
        LET n == Len(r.Issues)
            withEvidence == Len(controls[1].Evidence) > 0
            base == IF withEvidence THEN FAdd(Lit(50), Lit(20)) ELSE Lit(50)
            sum == IF n = 0 THEN FAdd(base, Lit(30))
                   ELSE FSub(base, FMulInt(n, Lit(10)))
            hundredths == 50 + (IF withEvidence THEN 20 ELSE 0)
                             + (IF n = 0 THEN 30 ELSE -(10 * n))
        IN  /\ r.Confidence = Clamp01(sum)
            /\ r.Confidence.k = hundredths
            /\ r.Confidence.e <= 800 /\ r.Confidence.e >= -800

\* evidence and two issues: 0.5 + 0.2 - 2 * 0.1
C13_Witness ==
    /\ Len(results) > 0
    /\ Len(controls[1].Evidence) > 0
    /\ Len(results[1].Issues) = 2
    /\ FLe(results[1].Confidence, Lit(50))
    /\ FGt(results[1].Confidence, Lit(40))

\* C14: the issues of a result come from three checks that do not depend on
\* each other and give one issue at most each: the evidence issue iff the
\* control has no evidence, the recency issue iff the last verification is
\* unset or earlier than six months before the time of the validation, the
\* owner issue iff the owner is empty; they stand in the order evidence,
\* recency, owner, so there are 0 to 3 of them and none twice.
C14_IssuesFromThreeChecks ==
    [][results' # results
          => LET c == controls[1]
                 issues == results'[Len(results')].Issues
             IN  /\ Entries(issues) \subseteq Entries(IssueOrder)
                 /\ EvidenceIssue \in Entries(issues) <=> Len(c.Evidence) = 0
                 /\ RecencyIssue \in Entries(issues)
                        <=> \/ c.LastVerified = ZeroTime
                            \/ c.LastVerified < AddDate(now', 0, -6, 0)
                 /\ OwnerIssue \in Entries(issues) <=> c.Owner = ""
                 /\ Len(issues) <= 3
                 /\ \A i, j \in 1..Len(issues) :
                        i < j => Rank(issues[i]) < Rank(issues[j])]_vars

\* a control verified a tick after the six-month boundary, without owner: no
\* recency issue at first, the recency issue before the owner issue two
\* ticks later
C14_Witness ==
    /\ Len(results) = 2
    /\ controls[1].LastVerified = AddDate(StartTime, 0, -6, 0) + 1
    /\ results[1].Issues = <<OwnerIssue>>
    /\ results[2].Issues = <<RecencyIssue, OwnerIssue>>

\* C15: a result has as many recommendations as issues, the i-th being the
\* fixed text for the i-th issue: provide evidence for the evidence issue,
\* schedule a verification for the recency issue, assign an owner for the
\* owner issue; the fallback "Address: <issue>" is never produced.
C15_OneRecommendationPerIssue ==
    \A r \in Logged :
        /\ Len(r.Recommendations) = Len(r.Issues)
        /\ \A i \in 1..Len(r.Issues) :
              /\ r.Recommendations[i] =
                    CASE r.Issues[i] = EvidenceIssue
                            -> "Provide evidence of control implementation"
                      [] r.Issues[i] = RecencyIssue
                            -> "Schedule control verification"
                      [] r.Issues[i] = OwnerIssue
                            -> "Assign control owner"
              /\ r.Recommendations[i] # "Address: " \o r.Issues[i]

\* all three issues, all three recommendations
C15_Witness ==
    /\ Len(results) > 0
    /\ Len(results[1].Issues) = 3
    /\ results[1].Recommendations =
          <<"Provide evidence of control implementation",
            "Schedule control verification", "Assign control owner">>

\* what C17 says but for the values: a result has three issues at most, and
\* one at least when the control has no evidence; the clamping leaves the
\* computed value as it is; without evidence the confidence is 0.4 at most
IssueCountsAndNoClamping(r) ==
    LET n == Len(r.Issues)
        withEvidence == Len(controls[1].Evidence) > 0
        base == IF withEvidence THEN FAdd(Lit(50), Lit(20)) ELSE Lit(50)
        sum == IF n = 0 THEN FAdd(base, Lit(30))
               ELSE FSub(base, FMulInt(n, Lit(10)))
    IN  /\ n <= 3
        /\ ~withEvidence => n >= 1
        /\ withEvidence => n <= 2
        /\ r.Confidence = sum
        /\ FLe(Lit(0), sum) /\ FLe(sum, One)
        /\ ~withEvidence => FLe(r.Confidence, Lit(40))

\* C17 as claimed: the confidence is never below 0.2, and it is one of 1.0,
\* 0.6, 0.5 (evidence; 0, 1, 2 issues) and 0.4, 0.3, 0.2 (no evidence; 1, 2,
\* 3 issues).
C17_ConfidenceAtLeast02 ==
    \A r \in Logged :
        LET n == Len(r.Issues)
        IN  /\ IssueCountsAndNoClamping(r)
            /\ FGe(r.Confidence, Lit(20))
            /\ r.Confidence =
                  IF Len(controls[1].Evidence) > 0
                  THEN <<One, Lit(60), Lit(50)>>[n + 1]
                  ELSE <<Lit(40), Lit(30), Lit(20)>>[n]

\* C17 amended: the float64 values are 1.0, 0.6, 0.49999999999999994 with
\* evidence and 0.4, 0.3, 0.19999999999999996 without; the least confidence
\* is 2^-54 below the float64 0.2, and the confidence for evidence and two
\* issues 2^-54 below 0.5.
C17_ConfidenceValues ==
    \A r \in Logged :
        LET n == Len(r.Issues)
        IN  /\ IssueCountsAndNoClamping(r)
            /\ FGe(r.Confidence, Flt(20, Lit(20).e - 400))
            /\ r.Confidence =
                  IF Len(controls[1].Evidence) > 0
                  THEN <<One, Lit(60), Flt(50, -400)>>[n + 1]
                  ELSE <<Lit(40), Lit(30), Flt(20, Lit(20).e - 400)>>[n]

\* the least confidence, just below 0.2, and the same at the next validation
C17_Witness ==
    /\ Len(results) = 2
    /\ Len(controls[1].Evidence) = 0
    /\ results[1].Confidence = Flt(20, Lit(20).e - 400)
    /\ FLt(results[1].Confidence, Lit(20))
    /\ results[2].Confidence = results[1].Confidence

\* C18: for an unchanged control and a clock that does not go back, a
\* validation that reports the recency issue is followed only by validations
\* that report it too, so a label that is not EFFECTIVE never returns to
\* EFFECTIVE; the effectiveness is the same in all results.
C18_RecencyIssueStays ==
    \A i, j \in 1..Len(results) :
        i < j
          => /\ results[i].ValidatedAt <= results[j].ValidatedAt
             /\ RecencyIssue \in Entries(results[i].Issues)
                    => RecencyIssue \in Entries(results[j].Issues)
             /\ results[i].Status # "EFFECTIVE"
                    => results[j].Status # "EFFECTIVE"
             /\ results[i].Effectiveness = results[j].Effectiveness

====
